---- MODULE Spec2Model ----
(***************************************************************************)
(* Model of the reservoir sampling service: the session store              *)
(* (service/reservoir/state.go), the HTTP adapters (handlers), the jobs    *)
(* and the worker pool.                                                    *)
(*                                                                         *)
(* Spec      the session store called directly by NThreads goroutines,     *)
(*           each store method split at its shared-memory accesses.        *)
(* PoolSpec  the whole service: requests go through the handlers, the job  *)
(*           queue and the dispatcher to NThreads workers, whose Process   *)
(*           runs the same store steps.                                    *)
(***************************************************************************)
EXTENDS Integers, Sequences, FiniteSets, TLC

\* ------------------------------------------------------------ bounds
NThreads == 2        \* goroutines calling the store concurrently
MaxCalls == 4        \* store calls started in one behaviour
MaxK == 2            \* longest initial reservoir
MaxID == 1           \* largest session id a caller asks for
MaxRequests == 3     \* HTTP requests served in one behaviour of PoolSpec
MaxQueue == 1        \* capacity of the JobQueue channel
MaxStops == 1        \* exit signals (Worker.Stop) delivered in one behaviour

Threads == 1..NThreads
\* The workers are the goroutines that call the store in PoolSpec.
Workers == Threads
Requests == 1..MaxRequests
\* Initial reservoirs handed to Begin: the empty one and <<1, ..., MaxK>>.
Inputs == {[i \in 1..k |-> i] : k \in {0, MaxK}}
\* Integers streamed in by Add; distinct from every initial element.
AddValues == {9}
\* Session ids a caller may name (0 is the zero value of an undecoded request).
IDs == 0..MaxID
\* The nil *Reservoir.
Nil == 0

VARIABLES
    heap,                   \* the Reservoir objects allocated so far, by address
    sessionToReservoir,     \* map[uint64]*Reservoir
    sessionToReservoirLock, \* sync.RWMutex
    sessionToSessionLock,   \* map[uint64]sync.RWMutex (mutexes stored by value)
    sessionToSessionLockLock, \* sync.RWMutex
    nextSessionID,          \* *uint64
    th,                     \* per goroutine: position and locals of its store call
    crashed,                \* the process died (unrecovered panic or runtime throw)
    calls,                  \* store calls started so far
    issued,                 \* history: issued[a] = id returned by the Create that allocated a (0: not yet)
    ended,                  \* history: ids for which End has returned a sample
    applied,                \* history: applied[a] = Updates on reservoir a that returned nil
    captured,               \* history: captured[a] = <<data>> as End read it from reservoir a (<<>>: not yet)
    solo,                   \* history: the Update that has run with no other call in flight, and the Reservoir it found
    rq,                     \* per HTTP request: the handler's position, its requestData, the statuses written
    jobs,                   \* per request: the Job made for it, and the values sent on its done channel
    JobQueue,               \* chan Job
    WorkerPool,             \* chan chan Job: the job channels of the registered workers
    dispatcher,             \* the dispatcher's position, the Job and the channel it holds
    wk,                     \* per worker: position in the loop of Start, the Job it holds
    stops                   \* exit signals delivered so far

storeVars == <<heap, sessionToReservoir, sessionToReservoirLock, sessionToSessionLock,
               sessionToSessionLockLock, nextSessionID>>
histVars == <<issued, ended, applied, captured, solo>>
poolVars == <<rq, jobs, JobQueue, WorkerPool, dispatcher, wk, stops>>
\* What a step inside a store method leaves alone.
envVars == <<calls, poolVars>>
vars == <<storeVars, th, crashed, calls, histVars, poolVars>>

\* ------------------------------------------------------------ sync.RWMutex
\* A mutex is a value: w = a writer holds it, r = number of readers.
ZeroMutex == [w |-> FALSE, r |-> 0]
CanLock(m) == ~m.w /\ m.r = 0
Lock(m) == [m EXCEPT !.w = TRUE]
Unlock(m) == [m EXCEPT !.w = FALSE]
CanRLock(m) == ~m.w
RLock(m) == [m EXCEPT !.r = @ + 1]
RUnlock(m) == [m EXCEPT !.r = @ - 1]

\* ------------------------------------------------------------ maps
MapGet(m, key) == IF key \in DOMAIN m THEN m[key] ELSE Nil
MapPut(m, key, val) == [x \in DOMAIN m \cup {key} |-> IF x = key THEN val ELSE m[x]]
MapDelete(m, key) == [x \in DOMAIN m \ {key} |-> m[x]]
EmptyMap == [x \in {} |-> Nil]

\* ------------------------------------------------------------ Reservoir
NewReservoir(reservoir) == [data |-> reservoir, k |-> Len(reservoir), n |-> Len(reservoir)]
\* Mutant of Overwrite: the value is appended instead of replacing an element.
OverwriteAppend(data, randomIndex, integerToAdd) == Append(data, integerToAdd)
\* reservoir.data[randomIndex] = integerToAdd (Go indexes from 0)
Overwrite(data, randomIndex, integerToAdd) == [data EXCEPT ![randomIndex + 1] = integerToAdd]
\* Mutant of Intn: the bound itself can be drawn.
IntnInclusive(n) == 0..n
\* rand.Intn(n): some integer of [0, n)
Intn(n) == 0..(n - 1)

\* ------------------------------------------------------------ goroutine locals
IdleFrame == [pc |-> "idle", op |-> "none", sessionID |-> 0, integerToAdd |-> 0,
              reservoir |-> Nil, reservoirLock |-> ZeroMutex, tmp |-> 0,
              randomIndex |-> 0, ret |-> "none", afterEnd |-> FALSE]

At(t, loc) == ~crashed /\ th[t].pc = loc
Goto(t, loc) == th' = [th EXCEPT ![t].pc = loc]
\* A call returns: the locals die, the outcome stays for the caller.
Return(t, outcome) == th' = [th EXCEPT ![t] = [IdleFrame EXCEPT !.op = th[t].op,
                                                                  !.ret = outcome]]

\* A request that has not arrived, and the Job that does not exist yet.
NoRequest == [pc |-> "new", kind |-> "none", bad |-> FALSE, Reservoir |-> <<>>,
              SessionID |-> 0, IntegerToAdd |-> 0, status |-> <<>>]
NoJob == [state |-> "none", worker |-> 0, done |-> 0]
\* No Update is running alone.
NoSolo == [t |-> 0, a |-> 0, v |-> 0, before |-> [data |-> <<>>, k |-> 0, n |-> 0]]

Init ==
    /\ heap = <<>>
    /\ sessionToReservoir = EmptyMap
    /\ sessionToReservoirLock = ZeroMutex
    /\ sessionToSessionLock = EmptyMap
    /\ sessionToSessionLockLock = ZeroMutex
    /\ nextSessionID = 1
    /\ th = [t \in Threads |-> IdleFrame]
    /\ crashed = FALSE
    /\ calls = 0
    /\ issued = <<>>
    /\ ended = {}
    /\ applied = <<>>
    /\ captured = <<>>
    /\ solo = NoSolo
    /\ rq = [r \in Requests |-> NoRequest]
    /\ jobs = [r \in Requests |-> NoJob]
    /\ JobQueue = <<>>
    /\ WorkerPool = <<>>
    /\ dispatcher = [pc |-> "job", job |-> 0, ch |-> 0]
    /\ wk = [w \in Workers |-> [pc |-> "register", job |-> 0]]
    /\ stops = 0

\* ------------------------------------------------------------ AtomicCreateReservoir
\* Lines 60-66: the call starts and builds the Reservoir.
StartCreate(t, reservoir) ==
    /\ At(t, "idle")
    /\ heap' = Append(heap, NewReservoir(reservoir))
    /\ th' = [th EXCEPT ![t] = [IdleFrame EXCEPT !.pc = "c136", !.op = "Create",
                                                  !.reservoir = Len(heap) + 1]]
    /\ issued' = Append(issued, 0)
    /\ applied' = Append(applied, 0)
    /\ captured' = Append(captured, <<>>)
    /\ solo' = NoSolo
    /\ UNCHANGED <<sessionToReservoir, sessionToReservoirLock, sessionToSessionLock,
                   sessionToSessionLockLock, nextSessionID, crashed, ended>>

\* Line 136: sessionID := atomic.LoadUint64(state.nextSessionID)
GetSessionID(t) ==
    /\ At(t, "c136")
    /\ th' = [th EXCEPT ![t].sessionID = nextSessionID, ![t].pc = "c137"]
    /\ UNCHANGED <<storeVars, crashed, histVars>>
    /\ UNCHANGED envVars

\* Line 137: atomic.AddUint64(state.nextSessionID, 1)
IncrementSessionID(t) ==
    /\ At(t, "c137")
    /\ nextSessionID' = nextSessionID + 1
    /\ Goto(t, "c69")
    /\ UNCHANGED <<heap, sessionToReservoir, sessionToReservoirLock, sessionToSessionLock,
                   sessionToSessionLockLock, crashed, histVars>>
    /\ UNCHANGED envVars

\* Lines 69-70: state.sessionToReservoirLock.Lock();
\* state.sessionToReservoir[sessionID] = res
CreatePutReservoir(t) ==
    /\ At(t, "c69")
    /\ CanLock(sessionToReservoirLock)
    /\ sessionToReservoirLock' = Lock(sessionToReservoirLock)
    /\ sessionToReservoir' = MapPut(sessionToReservoir, th[t].sessionID, th[t].reservoir)
    /\ Goto(t, "c71")
    /\ UNCHANGED <<heap, sessionToSessionLock, sessionToSessionLockLock, nextSessionID,
                   crashed, histVars>>
    /\ UNCHANGED envVars

\* Line 71: state.sessionToSessionLockLock.Lock()
CreateLockLocks(t) ==
    /\ At(t, "c71")
    /\ CanLock(sessionToSessionLockLock)
    /\ sessionToSessionLockLock' = Lock(sessionToSessionLockLock)
    /\ Goto(t, "c72")
    /\ UNCHANGED <<heap, sessionToReservoir, sessionToReservoirLock, sessionToSessionLock,
                   nextSessionID, crashed, histVars>>
    /\ UNCHANGED envVars

\* Lines 72-73: state.sessionToSessionLock[sessionID] = sync.RWMutex{};
\* state.sessionToSessionLockLock.Unlock()
CreatePutLock(t) ==
    /\ At(t, "c72")
    /\ sessionToSessionLock' = MapPut(sessionToSessionLock, th[t].sessionID, ZeroMutex)
    /\ sessionToSessionLockLock' = Unlock(sessionToSessionLockLock)
    /\ Goto(t, "c74")
    /\ UNCHANGED <<heap, sessionToReservoir, sessionToReservoirLock, nextSessionID,
                   crashed, histVars>>
    /\ UNCHANGED envVars

\* Lines 74-75: state.sessionToReservoirLock.Unlock(); return sessionID
CreateReturn(t) ==
    /\ At(t, "c74")
    /\ sessionToReservoirLock' = Unlock(sessionToReservoirLock)
    /\ Return(t, "ok")
    /\ issued' = [issued EXCEPT ![th[t].reservoir] = th[t].sessionID]
    /\ UNCHANGED <<heap, sessionToReservoir, sessionToSessionLock,
                   sessionToSessionLockLock, nextSessionID, crashed, ended, applied,
                   captured, solo>>
    /\ UNCHANGED envVars

AtomicCreateReservoir(t) ==
    \/ GetSessionID(t)
    \/ IncrementSessionID(t)
    \/ CreatePutReservoir(t)
    \/ CreateLockLocks(t)
    \/ CreatePutLock(t)
    \/ CreateReturn(t)

\* ------------------------------------------------------------ AtomicUpdateReservoir
\* Lines 81-83: the call starts.
StartUpdate(t, sessionID, integerToAdd) ==
    /\ At(t, "idle")
    /\ th' = [th EXCEPT ![t] = [IdleFrame EXCEPT !.pc = "u84", !.op = "Update",
                                                  !.sessionID = sessionID,
                                                  !.integerToAdd = integerToAdd,
                                                  !.afterEnd = sessionID \in ended]]
    /\ solo' = IF /\ \A u \in Threads \ {t} : th[u].pc = "idle"
                  /\ sessionID \in DOMAIN sessionToReservoir
                  /\ sessionID \in DOMAIN sessionToSessionLock
               THEN [t |-> t, a |-> sessionToReservoir[sessionID], v |-> integerToAdd,
                     before |-> heap[sessionToReservoir[sessionID]]]
               ELSE NoSolo
    /\ UNCHANGED <<storeVars, crashed, issued, ended, applied, captured>>

\* Mutant of UpdateFindLock: found is ignored, a missing key yields the zero mutex.
UpdateFindLockUnchecked(t) ==
    /\ At(t, "u84")
    /\ th' = [th EXCEPT ![t].reservoirLock = Lock(ZeroMutex), ![t].pc = "u91"]
    /\ UNCHANGED <<storeVars, crashed, histVars>>
    /\ UNCHANGED envVars

\* Lines 84-90: reservoirLock, found := state.sessionToSessionLock[sessionID],
\* read without sessionToSessionLockLock; the mutex is copied out of the map,
\* and reservoirLock.Lock() locks the goroutine's own copy.
UpdateFindLock(t) ==
    /\ At(t, "u84")
    /\ IF th[t].sessionID \in DOMAIN sessionToSessionLock
       THEN /\ CanLock(sessionToSessionLock[th[t].sessionID])
            /\ th' = [th EXCEPT ![t].reservoirLock = Lock(sessionToSessionLock[th[t].sessionID]),
                                ![t].pc = "u91"]
       ELSE Return(t, "NotFound")
    /\ UNCHANGED <<storeVars, crashed, histVars>>
    /\ UNCHANGED envVars

\* Line 91: state.sessionToReservoirLock.RLock()
UpdateRLockReservoirs(t) ==
    /\ At(t, "u91")
    /\ CanRLock(sessionToReservoirLock)
    /\ sessionToReservoirLock' = RLock(sessionToReservoirLock)
    /\ Goto(t, "u92")
    /\ UNCHANGED <<heap, sessionToReservoir, sessionToSessionLock,
                   sessionToSessionLockLock, nextSessionID, crashed, histVars>>
    /\ UNCHANGED envVars

\* Lines 92-93: reservoir := state.sessionToReservoir[sessionID] (nil when
\* absent); state.sessionToReservoirLock.RUnlock()
UpdateGetReservoir(t) ==
    /\ At(t, "u92")
    /\ th' = [th EXCEPT ![t].reservoir = MapGet(sessionToReservoir, th[t].sessionID),
                        ![t].pc = "u96"]
    /\ sessionToReservoirLock' = RUnlock(sessionToReservoirLock)
    /\ UNCHANGED <<heap, sessionToReservoir, sessionToSessionLock,
                   sessionToSessionLockLock, nextSessionID, crashed, histVars>>
    /\ UNCHANGED envVars

\* Line 96, first half: the read of reservoir.n in reservoir.n += 1.
\* A nil reservoir panics; no caller recovers, so the process dies.
UpdateReadN(t) ==
    /\ At(t, "u96")
    /\ IF th[t].reservoir = Nil
       THEN /\ crashed' = TRUE
            /\ th' = [th EXCEPT ![t].ret = "panic"]
       ELSE /\ th' = [th EXCEPT ![t].tmp = heap[th[t].reservoir].n, ![t].pc = "u96w"]
            /\ UNCHANGED crashed
    /\ UNCHANGED <<storeVars, histVars>>
    /\ UNCHANGED envVars

\* Line 96, second half: the write of reservoir.n
UpdateWriteN(t) ==
    /\ At(t, "u96w")
    /\ heap' = [heap EXCEPT ![th[t].reservoir].n = th[t].tmp + 1]
    /\ Goto(t, "u97")
    /\ UNCHANGED <<sessionToReservoir, sessionToReservoirLock, sessionToSessionLock,
                   sessionToSessionLockLock, nextSessionID, crashed, histVars>>
    /\ UNCHANGED envVars

\* Line 97: randomIndex := rand.Intn(reservoir.n)
UpdateDraw(t) ==
    /\ At(t, "u97")
    /\ \E randomIndex \in Intn(heap[th[t].reservoir].n) :
        th' = [th EXCEPT ![t].randomIndex = randomIndex, ![t].pc = "u98"]
    /\ UNCHANGED <<storeVars, crashed, histVars>>
    /\ UNCHANGED envVars

\* Mutant of UpdateStore: the value is stored without the test randomIndex <
\* reservoir.k, growing data when the index is past its end.
UpdateStoreUnguarded(t) ==
    /\ At(t, "u98")
    /\ LET a == th[t].reservoir IN
       heap' = [heap EXCEPT ![a].data =
                    IF th[t].randomIndex < Len(heap[a].data)
                    THEN Overwrite(heap[a].data, th[t].randomIndex, th[t].integerToAdd)
                    ELSE Append(heap[a].data, th[t].integerToAdd)]
    /\ Return(t, "ok")
    /\ applied' = [applied EXCEPT ![th[t].reservoir] = @ + 1]
    /\ UNCHANGED <<sessionToReservoir, sessionToReservoirLock, sessionToSessionLock,
                   sessionToSessionLockLock, nextSessionID, crashed, issued, ended,
                   captured, solo>>
    /\ UNCHANGED envVars

\* Lines 98-102: if randomIndex < reservoir.k { reservoir.data[randomIndex] =
\* integerToAdd }; reservoirLock.Unlock(); return nil
UpdateStore(t) ==
    /\ At(t, "u98")
    /\ LET a == th[t].reservoir IN
       IF th[t].randomIndex < heap[a].k
       THEN heap' = [heap EXCEPT ![a].data =
                         Overwrite(heap[a].data, th[t].randomIndex, th[t].integerToAdd)]
       ELSE UNCHANGED heap
    /\ Return(t, "ok")
    /\ applied' = [applied EXCEPT ![th[t].reservoir] = @ + 1]
    /\ UNCHANGED <<sessionToReservoir, sessionToReservoirLock, sessionToSessionLock,
                   sessionToSessionLockLock, nextSessionID, crashed, issued, ended,
                   captured, solo>>
    /\ UNCHANGED envVars

AtomicUpdateReservoir(t) ==
    \/ UpdateFindLock(t)
    \/ UpdateRLockReservoirs(t)
    \/ UpdateGetReservoir(t)
    \/ UpdateReadN(t)
    \/ UpdateWriteN(t)
    \/ UpdateDraw(t)
    \/ UpdateStore(t)

\* ------------------------------------------------------------ AtomicEndReservoirSession
\* Lines 107-108: the call starts.
StartEnd(t, sessionID) ==
    /\ At(t, "idle")
    /\ th' = [th EXCEPT ![t] = [IdleFrame EXCEPT !.pc = "e109", !.op = "End",
                                                  !.sessionID = sessionID,
                                                  !.afterEnd = sessionID \in ended]]
    /\ solo' = NoSolo
    /\ UNCHANGED <<storeVars, crashed, issued, ended, applied, captured>>

\* Lines 109-116: the same unlocked lookup, copy and Lock of the copy as in Update
EndFindLock(t) ==
    /\ At(t, "e109")
    /\ IF th[t].sessionID \in DOMAIN sessionToSessionLock
       THEN /\ CanLock(sessionToSessionLock[th[t].sessionID])
            /\ th' = [th EXCEPT ![t].reservoirLock = Lock(sessionToSessionLock[th[t].sessionID]),
                                ![t].pc = "e117"]
       ELSE Return(t, "NotFound")
    /\ UNCHANGED <<storeVars, crashed, histVars>>
    /\ UNCHANGED envVars

\* Line 117: state.sessionToReservoirLock.Lock()
EndLockReservoirs(t) ==
    /\ At(t, "e117")
    /\ CanLock(sessionToReservoirLock)
    /\ sessionToReservoirLock' = Lock(sessionToReservoirLock)
    /\ Goto(t, "e118")
    /\ UNCHANGED <<heap, sessionToReservoir, sessionToSessionLock,
                   sessionToSessionLockLock, nextSessionID, crashed, histVars>>
    /\ UNCHANGED envVars

\* Lines 118-122: reservoir := state.sessionToReservoir[sessionID];
\* data := reservoir.data (the slice the Reservoir holds, not a copy; a nil
\* reservoir panics with the map lock held); delete(state.sessionToReservoir,
\* sessionID); state.sessionToReservoirLock.Unlock(); reservoirLock.Unlock()
EndTakeReservoir(t) ==
    /\ At(t, "e118")
    /\ LET reservoir == MapGet(sessionToReservoir, th[t].sessionID) IN
       IF reservoir = Nil
       THEN /\ crashed' = TRUE
            /\ th' = [th EXCEPT ![t].ret = "panic"]
            /\ UNCHANGED <<sessionToReservoir, sessionToReservoirLock, captured>>
       ELSE /\ th' = [th EXCEPT ![t].reservoir = reservoir,
                                ![t].reservoirLock = Unlock(@), ![t].pc = "e125"]
            /\ captured' = [captured EXCEPT ![reservoir] = <<heap[reservoir].data>>]
            /\ sessionToReservoir' = MapDelete(sessionToReservoir, th[t].sessionID)
            /\ sessionToReservoirLock' = Unlock(sessionToReservoirLock)
            /\ UNCHANGED crashed
    /\ UNCHANGED <<heap, sessionToSessionLock, sessionToSessionLockLock, nextSessionID,
                   issued, ended, applied, solo>>
    /\ UNCHANGED envVars

\* Line 125: state.sessionToSessionLockLock.Lock()
EndLockLocks(t) ==
    /\ At(t, "e125")
    /\ CanLock(sessionToSessionLockLock)
    /\ sessionToSessionLockLock' = Lock(sessionToSessionLockLock)
    /\ Goto(t, "e126")
    /\ UNCHANGED <<heap, sessionToReservoir, sessionToReservoirLock, sessionToSessionLock,
                   nextSessionID, crashed, histVars>>
    /\ UNCHANGED envVars

\* Lines 126-129: delete(state.sessionToSessionLock, sessionID);
\* state.sessionToSessionLockLock.Unlock(); return data, nil
EndReturn(t) ==
    /\ At(t, "e126")
    /\ sessionToSessionLock' = MapDelete(sessionToSessionLock, th[t].sessionID)
    /\ sessionToSessionLockLock' = Unlock(sessionToSessionLockLock)
    /\ ended' = ended \cup {th[t].sessionID}
    /\ Return(t, "ok")
    /\ UNCHANGED <<heap, sessionToReservoir, sessionToReservoirLock, nextSessionID,
                   crashed, issued, applied, captured, solo>>
    /\ UNCHANGED envVars

AtomicEndReservoirSession(t) ==
    \/ EndFindLock(t)
    \/ EndLockReservoirs(t)
    \/ EndTakeReservoir(t)
    \/ EndLockLocks(t)
    \/ EndReturn(t)

\* ------------------------------------------------------------ the Go runtime
\* The lookups of lines 84 and 109 read sessionToSessionLock without holding
\* sessionToSessionLockLock. When such a read overlaps the map write of line 72
\* or 126 the runtime may throw "concurrent map read and map write", which ends
\* the process; otherwise the read sees the map before or after the write.
ConcurrentMapAccess(t) ==
    /\ ~crashed
    /\ th[t].pc \in {"u84", "e109"}
    /\ \E w \in Threads \ {t} : th[w].pc \in {"c72", "e126"}
    /\ crashed' = TRUE
    /\ UNCHANGED <<storeVars, th, histVars>>
    /\ UNCHANGED envVars

\* ------------------------------------------------------------ api: direct callers
\* BeginSession, AddInteger and EndSession called by any goroutine.
BeginSession(t) ==
    /\ calls < MaxCalls
    /\ \E initialReservoir \in Inputs : StartCreate(t, initialReservoir)
    /\ calls' = calls + 1
    /\ UNCHANGED poolVars

AddInteger(t) ==
    /\ calls < MaxCalls
    /\ \E sessionID \in IDs, integerToAdd \in AddValues : StartUpdate(t, sessionID, integerToAdd)
    /\ calls' = calls + 1
    /\ UNCHANGED poolVars

EndSession(t) ==
    /\ calls < MaxCalls
    /\ \E sessionID \in IDs : StartEnd(t, sessionID)
    /\ calls' = calls + 1
    /\ UNCHANGED poolVars

Next ==
    \E t \in Threads :
        \/ BeginSession(t)
        \/ AddInteger(t)
        \/ EndSession(t)
        \/ AtomicCreateReservoir(t)
        \/ AtomicUpdateReservoir(t)
        \/ AtomicEndReservoirSession(t)
        \/ ConcurrentMapAccess(t)

Spec == Init /\ [][Next]_vars

\* The Go scheduler lets every goroutine that can take a step of its store
\* call take it; a goroutine blocked in Lock or RLock goes on once the mutex
\* is free.
StoreStep(t) ==
    AtomicCreateReservoir(t) \/ AtomicUpdateReservoir(t) \/ AtomicEndReservoirSession(t)
FairSpec == Spec /\ \A t \in Threads : WF_vars(StoreStep(t))

\* ------------------------------------------------------------ handlers
StatusOK == 200
StatusBadRequest == 400
StatusNotFound == 404

\* Requests are numbered in the order their Jobs enter the JobQueue.
Arrives(r) ==
    ~crashed /\ rq[r].pc = "new" /\ (IF r = 1 THEN TRUE ELSE rq[r - 1].pc \notin {"new", "enqueue"})
\* What http.Error(w, ..., StatusBadRequest) adds to the response when cond holds.
ErrorIf(cond, status) == IF cond THEN Append(status, StatusBadRequest) ELSE status
\* NewJob(req, jobType): the Job and its done channel exist from here on.
NewJob(r) == jobs' = [jobs EXCEPT ![r].state = "created"]
\* The handler has decoded the body and made the Job; next it sends it.
Handled(r, kind, bad, reservoir, sessionID, integerToAdd, status) ==
    rq' = [rq EXCEPT ![r] = [pc |-> "enqueue", kind |-> kind, bad |-> bad,
                             Reservoir |-> reservoir, SessionID |-> sessionID,
                             IntegerToAdd |-> integerToAdd, status |-> status]]

\* Lines 179-197. A body that fails to decode leaves req at its zero value;
\* neither error branch returns, so NewJob follows in every case.
beginHandler(r) ==
    /\ Arrives(r)
    /\ \E err \in BOOLEAN, body \in Inputs :
        LET reservoir == IF err THEN <<>> ELSE body IN
        Handled(r, "begin", err, reservoir, 0, 0,
                ErrorIf(Len(reservoir) = 0, ErrorIf(err, <<>>)))
    /\ NewJob(r)
    /\ UNCHANGED <<storeVars, th, crashed, calls, histVars,
                   JobQueue, WorkerPool, dispatcher, wk, stops>>

\* Lines 207-219
addHandler(r) ==
    /\ Arrives(r)
    /\ \E err \in BOOLEAN, sessionID \in IDs, integerToAdd \in AddValues :
        Handled(r, "add", err, <<>>, IF err THEN 0 ELSE sessionID,
                IF err THEN 0 ELSE integerToAdd, ErrorIf(err, <<>>))
    /\ NewJob(r)
    /\ UNCHANGED <<storeVars, th, crashed, calls, histVars,
                   JobQueue, WorkerPool, dispatcher, wk, stops>>

\* Lines 229-250
endHandler(r) ==
    /\ Arrives(r)
    /\ \E err \in BOOLEAN, sessionID \in IDs :
        Handled(r, "end", err, <<>>, IF err THEN 0 ELSE sessionID, 0, ErrorIf(err, <<>>))
    /\ NewJob(r)
    /\ UNCHANGED <<storeVars, th, crashed, calls, histVars,
                   JobQueue, WorkerPool, dispatcher, wk, stops>>

\* Lines 198, 220, 251: JobQueue <- work; the handler then waits in <-done.
HandlerSend(r) ==
    /\ ~crashed /\ rq[r].pc = "enqueue"
    /\ Len(JobQueue) < MaxQueue
    /\ JobQueue' = Append(JobQueue, r)
    /\ jobs' = [jobs EXCEPT ![r].state = "queued"]
    /\ rq' = [rq EXCEPT ![r].pc = "wait"]
    /\ UNCHANGED <<storeVars, th, crashed, calls, histVars,
                   WorkerPool, dispatcher, wk, stops>>

\* ------------------------------------------------------------ dispatcher
\* job := <-JobQueue
DispatchJob ==
    /\ ~crashed /\ dispatcher.pc = "job"
    /\ JobQueue # <<>>
    /\ dispatcher' = [dispatcher EXCEPT !.pc = "worker", !.job = Head(JobQueue)]
    /\ JobQueue' = Tail(JobQueue)
    /\ jobs' = [jobs EXCEPT ![Head(JobQueue)].state = "assigned"]
    /\ UNCHANGED <<storeVars, th, crashed, calls, histVars, rq, WorkerPool, wk, stops>>

\* jobChannel := <-WorkerPool, blocking while no worker is registered
DispatchWorker ==
    /\ ~crashed /\ dispatcher.pc = "worker"
    /\ WorkerPool # <<>>
    /\ dispatcher' = [dispatcher EXCEPT !.pc = "send", !.ch = Head(WorkerPool)]
    /\ WorkerPool' = Tail(WorkerPool)
    /\ UNCHANGED <<storeVars, th, crashed, calls, histVars, rq, jobs, JobQueue, wk, stops>>

\* ------------------------------------------------------------ Job.Process
\* Lines 362, 383, 395: the store call Process makes for the Job of request j.
ProcessCall(w, j) ==
    CASE rq[j].kind = "begin" -> StartCreate(w, rq[j].Reservoir)
      [] rq[j].kind = "add" -> StartUpdate(w, rq[j].SessionID, rq[j].IntegerToAdd)
      [] rq[j].kind = "end" -> StartEnd(w, rq[j].SessionID)

\* Lines 363-378, 384-391, 396-413: the status Process writes once the call is back.
ProcessStatus(kind, ret) ==
    IF kind # "begin" /\ ret = "NotFound" THEN StatusNotFound ELSE StatusOK

\* ------------------------------------------------------------ Worker
\* Line 420: w.WorkerPool <- w.JobChannel
WorkerRegister(w) ==
    /\ ~crashed /\ wk[w].pc = "register"
    /\ Len(WorkerPool) < NThreads
    /\ WorkerPool' = Append(WorkerPool, w)
    /\ wk' = [wk EXCEPT ![w] = [pc |-> "select", job |-> 0]]
    /\ UNCHANGED <<storeVars, th, crashed, calls, histVars, rq, jobs, JobQueue,
                   dispatcher, stops>>

\* Mutant of WorkerReceive: Process is started without being waited for
\* (go job.Process()), and the loop goes on to register the worker again.
WorkerReceiveAsync(w) ==
    /\ ~crashed /\ wk[w].pc = "select"
    /\ dispatcher.pc = "send" /\ dispatcher.ch = w
    /\ wk' = [wk EXCEPT ![w] = [pc |-> "register", job |-> dispatcher.job]]
    /\ jobs' = [jobs EXCEPT ![dispatcher.job].state = "running",
                            ![dispatcher.job].worker = w]
    /\ dispatcher' = [pc |-> "job", job |-> 0, ch |-> 0]
    /\ ProcessCall(w, dispatcher.job)
    /\ UNCHANGED <<calls, rq, JobQueue, WorkerPool, stops>>

\* Lines 423-425: job := <-w.JobChannel meets the dispatcher's jobChannel <- job
\* (the channel is unbuffered), and the worker enters job.Process().
WorkerReceive(w) ==
    /\ ~crashed /\ wk[w].pc = "select"
    /\ dispatcher.pc = "send" /\ dispatcher.ch = w
    /\ wk' = [wk EXCEPT ![w] = [pc |-> "process", job |-> dispatcher.job]]
    /\ jobs' = [jobs EXCEPT ![dispatcher.job].state = "running",
                            ![dispatcher.job].worker = w]
    /\ dispatcher' = [pc |-> "job", job |-> 0, ch |-> 0]
    /\ ProcessCall(w, dispatcher.job)
    /\ UNCHANGED <<calls, rq, JobQueue, WorkerPool, stops>>

\* Mutant of WorkerProcessed: after an error the loop continues without markDone.
WorkerProcessedSkip(w) ==
    /\ ~crashed /\ wk[w].pc = "process"
    /\ th[w].pc = "idle"
    /\ rq' = [rq EXCEPT ![wk[w].job].status =
                  Append(@, ProcessStatus(rq[wk[w].job].kind, th[w].ret))]
    /\ jobs' = [jobs EXCEPT ![wk[w].job].state = "returned"]
    /\ wk' = [wk EXCEPT ![w].pc = IF ProcessStatus(rq[wk[w].job].kind, th[w].ret) = StatusOK
                                  THEN "markDone" ELSE "register"]
    /\ th' = [th EXCEPT ![w] = IdleFrame]
    /\ UNCHANGED <<storeVars, crashed, calls, histVars, JobQueue, WorkerPool,
                   dispatcher, stops>>

\* Lines 425-432: Process writes the response and returns, with an error or nil.
WorkerProcessed(w) ==
    /\ ~crashed /\ wk[w].pc = "process"
    /\ th[w].pc = "idle"
    /\ rq' = [rq EXCEPT ![wk[w].job].status =
                  Append(@, ProcessStatus(rq[wk[w].job].kind, th[w].ret))]
    /\ jobs' = [jobs EXCEPT ![wk[w].job].state = "returned"]
    /\ wk' = [wk EXCEPT ![w].pc = "markDone"]
    /\ th' = [th EXCEPT ![w] = IdleFrame]
    /\ UNCHANGED <<storeVars, crashed, calls, histVars, JobQueue, WorkerPool,
                   dispatcher, stops>>

\* Lines 433 and 346-356: job.markDone() sends on the unbuffered done channel,
\* where the handler waits (lines 199, 221, 252); the loop starts over.
markDone(w) ==
    /\ ~crashed /\ wk[w].pc = "markDone"
    /\ rq[wk[w].job].pc = "wait"
    /\ jobs' = [jobs EXCEPT ![wk[w].job] = [state |-> "signalled", worker |-> 0,
                                            done |-> @.done + 1]]
    /\ rq' = [rq EXCEPT ![wk[w].job] = [NoRequest EXCEPT !.pc = "served",
                                                         !.kind = rq[wk[w].job].kind,
                                                         !.bad = rq[wk[w].job].bad,
                                                         !.status = rq[wk[w].job].status]]
    /\ wk' = [wk EXCEPT ![w].pc = "register"]
    /\ UNCHANGED <<storeVars, th, crashed, calls, histVars, JobQueue, WorkerPool,
                   dispatcher, stops>>

\* Lines 434-436 and 444-448: the goroutine started by Stop sends on the
\* unbuffered w.exit and the select receives it: return.
WorkerExit(w) ==
    /\ ~crashed /\ wk[w].pc = "select"
    /\ stops < MaxStops
    /\ stops' = stops + 1
    /\ wk' = [wk EXCEPT ![w].pc = "stopped"]
    /\ UNCHANGED <<storeVars, th, crashed, calls, histVars, rq, jobs, JobQueue,
                   WorkerPool, dispatcher>>

PoolNext ==
    \/ \E r \in Requests :
        \/ beginHandler(r)
        \/ addHandler(r)
        \/ endHandler(r)
        \/ HandlerSend(r)
    \/ DispatchJob
    \/ DispatchWorker
    \/ \E w \in Workers :
        \/ WorkerRegister(w)
        \/ WorkerReceive(w)
        \/ WorkerProcessed(w)
        \/ markDone(w)
        \/ WorkerExit(w)
        \/ AtomicCreateReservoir(w)
        \/ AtomicUpdateReservoir(w)
        \/ AtomicEndReservoirSession(w)
        \/ ConcurrentMapAccess(w)

PoolSpec == Init /\ [][PoolNext]_vars

\* The same scheduling for the goroutines of the service: handlers send their
\* Job when the queue has room, the dispatcher and the workers take every step
\* they can. When requests arrive and when Stop is called is left open.
PoolFairness ==
    /\ WF_vars(DispatchJob)
    /\ WF_vars(DispatchWorker)
    /\ \A r \in Requests : WF_vars(HandlerSend(r))
    /\ \A w \in Workers : /\ WF_vars(WorkerRegister(w))
                          /\ WF_vars(WorkerReceive(w))
                          /\ WF_vars(WorkerProcessed(w))
                          /\ WF_vars(markDone(w))
                          /\ WF_vars(StoreStep(w))
FairPoolSpec == PoolSpec /\ PoolFairness

\* The service after it has served one begin request for <<1, ..., MaxK>>:
\* session 1 is open, the worker that served it is about to register again.
SessionOpen ==
    /\ heap = <<NewReservoir([i \in 1..MaxK |-> i])>>
    /\ sessionToReservoir = MapPut(EmptyMap, 1, 1)
    /\ sessionToReservoirLock = ZeroMutex
    /\ sessionToSessionLock = MapPut(EmptyMap, 1, ZeroMutex)
    /\ sessionToSessionLockLock = ZeroMutex
    /\ nextSessionID = 2
    /\ th = [t \in Threads |-> IdleFrame]
    /\ crashed = FALSE
    /\ calls = 0
    /\ issued = <<1>>
    /\ ended = {}
    /\ applied = <<0>>
    /\ captured = << <<>> >>
    /\ solo = NoSolo
    /\ rq = [r \in Requests |-> IF r = 1
                                 THEN [NoRequest EXCEPT !.pc = "served", !.kind = "begin",
                                                        !.status = <<StatusOK>>]
                                 ELSE NoRequest]
    /\ jobs = [r \in Requests |-> IF r = 1
                                   THEN [state |-> "signalled", worker |-> 0, done |-> 1]
                                   ELSE NoJob]
    /\ JobQueue = <<>>
    /\ WorkerPool = <<>>
    /\ dispatcher = [pc |-> "job", job |-> 0, ch |-> 0]
    /\ wk = [w \in Workers |-> [pc |-> "register", job |-> IF w = 1 THEN 1 ELSE 0]]
    /\ stops = 0
\* The service from there on, under the same scheduling.
OpenPoolSpec == SessionOpen /\ [][PoolNext]_vars /\ PoolFairness

\* ------------------------------------------------------------ shorthands for the claims
Addrs == 1..Len(heap)
UpdateLocs == {"u84", "u91", "u92", "u96", "u96w", "u97", "u98"}
\* An Update holds reservoir a between fetching the pointer and returning.
UpdateInFlight(a) == \E t \in Threads : th[t].op = "Update" /\ th[t].pc \in UpdateLocs
                                        /\ th[t].reservoir = a
\* Goroutine t takes a step of the call it is in.
Steps(t) == th[t].pc # "idle" /\ th'[t] # th[t]

\* C1: no lost updates. When the Adds that fetched a reservoir have all
\* returned, its n is the n it was created with plus the number of those Adds.
NoLostUpdates ==
    \A a \in Addrs : ~UpdateInFlight(a) => heap[a].n = heap[a].k + applied[a]

\* C2: identifier uniqueness. The ids returned by any two Create calls differ.
UniqueSessionIDs ==
    \A a, b \in Addrs :
        (a # b /\ issued[a] # 0 /\ issued[b] # 0) => issued[a] # issued[b]

\* C3: post-end invalidation. An Add or End that started after End(id) returned
\* never gets past the lookup of the session lock: it returns NotFound.
PostEndInvalidation ==
    \A t \in Threads : th[t].afterEnd => th[t].pc \in {"u84", "e109"}

\* C4: capacity invariant. Every Reservoir has len(data) = k and n >= k, and
\* no step changes the k (or the length of data) a Reservoir was created with.
CapacityHolds ==
    \A a \in Addrs : Len(heap[a].data) = heap[a].k /\ heap[a].n >= heap[a].k
CapacityFixed ==
    \A a \in Addrs : heap'[a].k = heap[a].k /\ Len(heap'[a].data) = Len(heap[a].data)
CapacityInvariant == [](CapacityHolds) /\ [][CapacityFixed]_vars
\* A session of capacity MaxK is in the store after an Add replaced its first element.
CapacityWitness ==
    \E id \in DOMAIN sessionToReservoir :
        LET r == heap[sessionToReservoir[id]] IN
        r.k = MaxK /\ r.n > r.k /\ r.data[1] \in AddValues

\* C5: unknown identifier. When the lookup of an Update or End runs for an id
\* that is in neither map, the call returns NotFound and the maps, every
\* Reservoir and the id counter are as before.
Unknown(id) == id \notin DOMAIN sessionToReservoir /\ id \notin DOMAIN sessionToSessionLock
UnknownIDStep(t) ==
    (th[t].pc \in {"u84", "e109"} /\ th'[t] # th[t] /\ Unknown(th[t].sessionID))
        => (th'[t].pc = "idle" /\ th'[t].ret = "NotFound" /\ UNCHANGED storeVars)
NeverReusedStep(t) ==
    (th[t].pc = "c74" /\ th'[t].pc = "idle") => th[t].sessionID \notin ended
CounterIncreases == nextSessionID >= 1 /\ nextSessionID' >= nextSessionID
IDsNeverReused == [][CounterIncreases /\ \A t \in Threads : NeverReusedStep(t)]_vars

\* C7: isolation. A step of an Update changes no Reservoir but the one it
\* fetched, and when two sessions are in the store each one's n is its initial
\* n plus the number of Adds that were applied to it.
UpdateFrame(t) ==
    (th[t].op = "Update" /\ Steps(t)) =>
        /\ \A b \in Addrs \ {th[t].reservoir} : heap'[b] = heap[b]
        /\ UNCHANGED <<sessionToReservoir, sessionToSessionLock, nextSessionID>>
SessionCounts ==
    \A a, b \in DOMAIN sessionToReservoir :
        (a # b /\ ~UpdateInFlight(sessionToReservoir[a]) /\ ~UpdateInFlight(sessionToReservoir[b]))
            => heap[sessionToReservoir[a]].n =
                 heap[sessionToReservoir[a]].k + applied[sessionToReservoir[a]]
SessionIsolation == [](SessionCounts) /\ [][\A t \in Threads : UpdateFrame(t)]_vars
\* The frame half of C7 alone.
UpdateFrameOnly == [][\A t \in Threads : UpdateFrame(t)]_vars

EveryCallReturns ==
    \A t \in Threads : (th[t].pc # "idle") ~> (th[t].pc = "idle")
\* The lock-order half of C15 alone: a call that never returns has not been
\* left waiting for a lock, the process has died.
NoLockWaitsForever ==
    \A t \in Threads : (th[t].pc # "idle") ~> (th[t].pc = "idle" \/ crashed)

\* C13: no failure other than NotFound. Every call that has ended returned
\* normally or returned NotFound: no Update or End that found the session's
\* lock then found the reservoir entry missing (the nil dereference of line 96
\* or 119).
NoFailureButNotFound ==
    \A t \in Threads : th[t].ret \in {"none", "ok", "NotFound"}

\* C14: key-set agreement. When no Create and no End is part-way through its
\* steps, the two maps have the same keys.
CreateLocs == {"c136", "c137", "c69", "c71", "c72", "c74"}
EndLocs == {"e109", "e117", "e118", "e125", "e126"}
Quiescent == \A t \in Threads : th[t].pc \notin CreateLocs \cup EndLocs
KeySetAgreement ==
    Quiescent => DOMAIN sessionToReservoir = DOMAIN sessionToSessionLock

\* C16: update rule. An Update(id, v) that runs with no other call in flight on
\* an existing session with counters (k, n) draws an r with 0 <= r < n + 1, and
\* when it returns n is n + 1, k is as before, and data is as before except
\* that data[r] = v when r < k.
UpdateDrawn ==
    (solo.t # 0 /\ th[solo.t].pc = "u98") =>
        /\ th[solo.t].randomIndex \in 0..solo.before.n
        /\ heap[solo.a] = [solo.before EXCEPT !.n = @ + 1]
UpdateRuleStep ==
    (solo.t # 0 /\ th[solo.t].pc = "u98" /\ th'[solo.t].pc = "idle") =>
        LET r == th[solo.t].randomIndex
            before == solo.before
        IN  /\ th'[solo.t].ret = "ok"
            /\ heap'[solo.a].n = before.n + 1
            /\ heap'[solo.a].k = before.k
            /\ heap'[solo.a].data = IF r < before.k
                                    THEN [i \in 1..before.k |->
                                             IF i = r + 1 THEN solo.v ELSE before.data[i]]
                                    ELSE before.data
UpdateRule == [](UpdateDrawn) /\ [][UpdateRuleStep]_vars
\* An Update that ran alone on <<1, 2>> has returned, having replaced the
\* second element and left the first.
UpdateRuleWitness ==
    /\ solo.t # 0 /\ th[solo.t].pc = "idle"
    /\ solo.before.data = <<1, 2>>
    /\ heap[solo.a] = [data |-> <<1, 9>>, k |-> 2, n |-> solo.before.n + 1]

\* C18: the sample returned by End is final. The slice End read from a
\* Reservoir (and returns) keeps the contents it had when End read it: no Add
\* writes into it afterwards.
SampleIsFinal ==
    \A a \in Addrs : captured[a] # <<>> => heap[a].data = captured[a][1]

\* C19: a session ends at most once. Of the Ends called for an existing
\* session, one reads the Reservoir and returns the sample, no other reads it
\* again, and every other one returns NotFound.
EndOutcome ==
    \A t \in Threads : th[t].op = "End" => th[t].ret \in {"none", "ok", "NotFound"}
EndTakesOnce ==
    \A t \in Threads :
        (th[t].pc = "e118" /\ th'[t].pc = "e125") => captured[th'[t].reservoir] = <<>>
EndsAtMostOnce == [](EndOutcome) /\ [][EndTakesOnce]_vars
\* The at-most-once half of C19 alone.
EndTakesOnceOnly == [][EndTakesOnce]_vars

\* ------------------------------------------------------------ claims about the pool
Last(seq) == seq[Len(seq)]
Running == {j \in Requests : jobs[j].state = "running"}

\* C8: completion signal. A Job's done channel gets at most one value, and only
\* after Process has written the response and returned; a Job whose Process has
\* returned, with an error or without, is held by a worker that is sending the
\* signal to the waiting handler, or has been signalled.
CompletionSignal ==
    \A j \in Requests :
        /\ jobs[j].done <= 1
        /\ (jobs[j].done = 1) <=> (jobs[j].state = "signalled")
        /\ jobs[j].state = "signalled" =>
               (rq[j].status # <<>> /\ Last(rq[j].status) \in {StatusOK, StatusNotFound})
        /\ jobs[j].state = "returned" =>
               (rq[j].pc = "wait" /\ \E w \in Workers : wk[w] = [pc |-> "markDone", job |-> j])
\* One Job was signalled after Process failed with NotFound, one after it succeeded.
CompletionWitness ==
    \E i, j \in Requests :
        /\ jobs[i].state = "signalled" /\ jobs[i].done = 1 /\ Last(rq[i].status) = StatusNotFound
        /\ jobs[j].state = "signalled" /\ jobs[j].done = 1 /\ Last(rq[j].status) = StatusOK

\* C9: bounded concurrency. At most NThreads Jobs are in Process at once, each
\* on a worker of its own that holds it, and the channel the dispatcher holds
\* belongs to a worker that is not running a Job.
BoundedConcurrency ==
    /\ Cardinality(Running) <= NThreads
    /\ \A j \in Running : wk[jobs[j].worker] = [pc |-> "process", job |-> j]
    /\ dispatcher.pc = "send" => wk[dispatcher.ch].pc \in {"select", "stopped"}
\* Every worker is running a Job while another Job waits for a worker.
BoundedWitness ==
    /\ Cardinality(Running) = NThreads
    /\ \E j \in Requests : jobs[j].state \in {"queued", "assigned"}

\* C10: malformed input never reaches the pool. A request whose body failed to
\* decode gets a bad-request answer and no Job.
MalformedNeverQueued ==
    \A r \in Requests : rq[r].bad => (jobs[r].state = "none" /\ rq[r].status = <<StatusBadRequest>>)

\* C12: completion on panic. A Job whose Process has panicked is still
\* signalled done, so that the handler waiting for it goes on.
PanicStillSignals ==
    \A j \in Requests :
        (jobs[j].state = "running" /\ th[jobs[j].worker].ret = "panic") ~> (jobs[j].done = 1)

\* C17: every Job is eventually served. Under fair scheduling, with a worker
\* that is never stopped (MaxStops < NThreads), every Job sent on the JobQueue
\* is eventually processed and its handler unblocked.
EveryJobServed ==
    \A j \in Requests : (jobs[j].state = "queued") ~> (jobs[j].state = "signalled")
\* What holds of C17: a Job is served unless the process has died or a worker
\* has been stopped.
ServedUnlessBroken ==
    \A j \in Requests :
        (jobs[j].state = "queued") ~>
            (jobs[j].state = "signalled" \/ crashed \/ \E w \in Workers : wk[w].pc = "stopped")

\* C20: no Job is handed to a stopped worker. Once a worker has received its
\* exit signal and left the loop, its job channel is not in the WorkerPool
\* queue.
Range(seq) == {seq[i] : i \in 1..Len(seq)}
NoJobForStopped ==
    \A w \in Workers : wk[w].pc = "stopped" => w \notin Range(WorkerPool)
\* What C20 concludes from it: the dispatcher never holds the channel of a
\* stopped worker to send a Job on.
NoJobSentToStopped ==
    \A w \in Workers :
        wk[w].pc = "stopped" => ~(dispatcher.pc = "send" /\ dispatcher.ch = w)
====
